---- MODULE Spec2Model ----
(***************************************************************************)
(* The parent side of pty-helper.py: the selector event loop of main(),    *)
(* its three readiness callbacks (pipe_pty, pipe_stdin, process_cmdio),    *)
(* write_all, the resize-directive parser and the reaper.                  *)
(*                                                                         *)
(* Bytes are integers 0..255.  Text on the control channel is a sequence   *)
(* of bytes; B(<<"2","4","x","8","0">>) spells the bytes of "24x80".       *)
(***************************************************************************)
EXTENDS Integers, Sequences, FiniteSets, TLC

VARIABLES
  pc,            \* position of the parent in main()
  running,       \* the nonlocal flag of main()
  registered,    \* descriptors registered in the selector
  ready,         \* keys of the current select() batch not yet dispatched
  stdinRead,     \* all bytes pipe_stdin has read from descriptor 0
  ptyWritten,    \* all bytes write() has accepted for the PTY master
  ptyRead,       \* all bytes pipe_pty has read from the PTY master
  stdoutWritten, \* all bytes write() has accepted for descriptor 1
  ioctlLog,      \* the TIOCSWINSZ calls made, in order, as <<rows, columns>>
  last,          \* the most recent callback, its outcome and, for fd 3, its read
  nReads,        \* number of non-empty reads so far (bounds the run)
  sawPtyEof,     \* pipe_pty has seen a zero-byte read or an OSError
  waitCount,     \* number of waitpid calls made on the child
  child,         \* how the child ended, once waitpid has reported it
  exitCode,      \* exit status of this process once it has terminated, else -1
  afterEof,      \* the callbacks run since pipe_pty saw end-of-stream, in order
  platform,      \* sys.platform
  wdata,         \* write_all taken one call at a time: the data still to write
  wcalls,        \* ... and the parity of the number of write calls made
  pid,           \* what _FORK() returned to this process, -1 before the fork
  tty            \* the host terminal: its mode, and the attributes saved from it

vars == <<pc, running, registered, ready, stdinRead, ptyWritten, ptyRead,
          stdoutWritten, ioctlLog, last, nReads, sawPtyEof, waitCount, child,
          exitCode, afterEof, platform, wdata, wcalls, pid, tty>>

-----------------------------------------------------------------------------
(* Program constants *)

CHUNK_SIZE == 1024

USHRT_MAX == 65535

PTY == "pty_fd"

STDIN == "stdin"

CMDIO == "cmdio"

-----------------------------------------------------------------------------
(* Bounds of the exploration *)

\* Non-empty reads in one run.
MaxReads == 2

\* write() calls one write_all may need.
MaxWrites == 3

\* The longest chunk handed to write_all when it is taken call by call.
MaxChunk == 4

-----------------------------------------------------------------------------
(* Generic helpers *)

Min(a, b) == IF a < b THEN a ELSE b

Drop(s, n) == SubSeq(s, n + 1, Len(s))

Ord(c) ==
  CASE c = "0" -> 48 [] c = "1" -> 49 [] c = "2" -> 50 [] c = "3" -> 51
    [] c = "4" -> 52 [] c = "5" -> 53 [] c = "6" -> 54 [] c = "7" -> 55
    [] c = "8" -> 56 [] c = "9" -> 57 [] c = "x" -> 120 [] c = "-" -> 45
    [] c = "+" -> 43 [] c = " " -> 32 [] c = "\n" -> 10 [] c = "\r" -> 13
    [] c = "a" -> 97 [] c = "b" -> 98 [] c = "d" -> 100

B(s) == [i \in 1..Len(s) |-> Ord(s[i])]

-----------------------------------------------------------------------------
(* os.read and os.write *)

\* read(fd, n): at most n of the bytes the descriptor has available.
Read(avail, n) == SubSeq(avail, 1, Min(Len(avail), n))

\* One write(fd, data) call either raises OSError or accepts the first n bytes
\* of data, 1 <= n <= len(data).  WriteCounts are the n the model tries.
WriteCounts == {1, 400, CHUNK_SIZE}

WriteReturns(data) == {Min(k, Len(data)) : k \in WriteCounts}

\* write_all without its loop: one write call, the rest of data dropped.
write_once(data, calls) ==
  IF data = <<>> THEN {[written |-> <<>>, end |-> "done"]}
  ELSE {[written |-> <<>>, end |-> "raised"]}
         \cup {[written |-> SubSeq(data, 1, n), end |-> "done"] :
                 n \in WriteReturns(data)}

\* write_all(fd, data): while data: data = data[write(fd, data):]
\* Every way the loop can go within `calls` calls of write: what reached the
\* descriptor, and whether the loop ended ("done") or write raised ("raised").
RECURSIVE write_all(_, _)
write_all(data, calls) ==
  IF data = <<>> THEN {[written |-> <<>>, end |-> "done"]}
  ELSE IF calls = 0 THEN {}
  ELSE {[written |-> <<>>, end |-> "raised"]}
         \cup UNION {{[written |-> SubSeq(data, 1, n) \o w.written, end |-> w.end] :
                        w \in write_all(Drop(data, n), calls - 1)} :
                     n \in WriteReturns(data)}

-----------------------------------------------------------------------------
(* The resize-directive parser of process_cmdio *)

IsCont(b) == b \in 128..191

IsLead2(b) == b \in 194..223

\* bytes.decode("UTF-8", "strict") for code points up to U+07FF: every byte is
\* ASCII, or a two-byte lead followed by a continuation byte, or that
\* continuation byte.  Anything else raises UnicodeDecodeError.
Utf8Valid(b) ==
  \A i \in 1..Len(b) :
    \/ b[i] < 128
    \/ IsLead2(b[i]) /\ i < Len(b) /\ IsCont(b[i + 1])
    \/ IsCont(b[i]) /\ i > 1 /\ IsLead2(b[i - 1])

Utf8Decode(b) ==
  LET starts == SelectSeq([i \in 1..Len(b) |-> i], LAMBDA i : ~IsCont(b[i]))
  IN  [k \in 1..Len(starts) |->
         LET i == starts[k]
         IN  IF b[i] < 128 THEN b[i]
             ELSE (b[i] - 192) * 64 + (b[i + 1] - 128)]

\* str.splitlines(): the line boundaries among the characters modelled.
LineBreaks == {10, 11, 12, 13, 28, 29, 30, 133}

FirstBreak(s) ==
  IF \E i \in 1..Len(s) : s[i] \in LineBreaks
  THEN CHOOSE i \in 1..Len(s) :
         s[i] \in LineBreaks /\ \A j \in 1..(i - 1) : s[j] \notin LineBreaks
  ELSE 0

RECURSIVE splitlines(_)
splitlines(s) ==
  IF s = <<>> THEN <<>>
  ELSE LET i == FirstBreak(s)
       IN  IF i = 0 THEN <<s>>
           ELSE LET crlf == s[i] = 13 /\ i < Len(s) /\ s[i + 1] = 10
                IN  <<SubSeq(s, 1, i - 1)>>
                      \o splitlines(Drop(s, IF crlf THEN i + 1 ELSE i))

\* str.split(sep, maxsplit): at most maxsplit splits, leftmost first.
RECURSIVE split(_, _, _)
split(s, sep, maxsplit) ==
  IF maxsplit = 0 \/ ~\E i \in 1..Len(s) : s[i] = sep THEN <<s>>
  ELSE LET i == CHOOSE i \in 1..Len(s) :
                  s[i] = sep /\ \A j \in 1..(i - 1) : s[j] # sep
       IN  <<SubSeq(s, 1, i - 1)>> \o split(Drop(s, i), sep, maxsplit - 1)

Whitespace == {9, 10, 11, 12, 13, 28, 29, 30, 31, 32, 133, 160}

RECURSIVE lstrip(_)
lstrip(s) == IF s # <<>> /\ Head(s) \in Whitespace THEN lstrip(Tail(s)) ELSE s

RECURSIVE rstrip(_)
rstrip(s) ==
  IF s # <<>> /\ s[Len(s)] \in Whitespace
  THEN rstrip(SubSeq(s, 1, Len(s) - 1)) ELSE s

strip(s) == rstrip(lstrip(s))

IsDigit(c) == c \in 48..57

RECURSIVE DigitsValue(_)
DigitsValue(s) ==
  IF s = <<>> THEN 0
  ELSE 10 * DigitsValue(SubSeq(s, 1, Len(s) - 1)) + (s[Len(s)] - 48)

\* int(s) for the characters modelled (no underscores, ASCII digits only):
\* optional surrounding whitespace, an optional sign, one or more decimal
\* digits.  int raises ValueError otherwise.
IntBody(s) == IF s # <<>> /\ Head(s) \in {43, 45} THEN Tail(s) ELSE s

IntOk(s) ==
  LET d == IntBody(strip(s))
  IN  d # <<>> /\ \A i \in 1..Len(d) : IsDigit(d[i])

IntValue(s) ==
  LET t == strip(s)
      v == DigitsValue(IntBody(t))
  IN  IF Head(t) = 45 THEN 0 - v ELSE v

\* struct.pack("H", v) raises struct.error unless 0 <= v <= USHRT_MAX.
PackOk(v) == 0 <= v /\ v <= USHRT_MAX

\* ParseLine with the two fields taken in the wrong order.
ParseLine_swapped(line) ==
  LET parts == [i \in 1..Len(split(line, 120, 2)) |-> strip(split(line, 120, 2)[i])]
  IN  IF Len(parts) # 2 \/ ~\A i \in 1..Len(parts) : IntOk(parts[i])
      THEN [out |-> "ignored", geom |-> <<>>]
      ELSE LET rows    == IntValue(parts[2])
               columns == IntValue(parts[1])
           IN  IF PackOk(rows) /\ PackOk(columns)
               THEN [out |-> "applied", geom |-> <<rows, columns>>]
               ELSE [out |-> "struct.error", geom |-> <<>>]

\* One line of the for loop: "applied" (ioctl made), "ignored" (ValueError or
\* IndexError caught) or "struct.error" (raised by pack, caught by nothing).
ParseLine(line) ==
  LET parts == [i \in 1..Len(split(line, 120, 2)) |-> strip(split(line, 120, 2)[i])]
  IN  IF Len(parts) # 2 \/ ~\A i \in 1..Len(parts) : IntOk(parts[i])
      THEN [out |-> "ignored", geom |-> <<>>]
      ELSE LET rows    == IntValue(parts[1])
               columns == IntValue(parts[2])
           IN  IF PackOk(rows) /\ PackOk(columns)
               THEN [out |-> "applied", geom |-> <<rows, columns>>]
               ELSE [out |-> "struct.error", geom |-> <<>>]

\* ParseLines with the try around the for loop instead of inside it: the
\* first malformed line ends the batch.
RECURSIVE ParseLines_abort(_)
ParseLines_abort(lines) ==
  IF lines = <<>> THEN [applied |-> <<>>, end |-> "done"]
  ELSE LET r == ParseLine(Head(lines))
       IN  IF r.out = "struct.error" THEN [applied |-> <<>>, end |-> "struct.error"]
           ELSE IF r.out = "ignored" THEN [applied |-> <<>>, end |-> "done"]
           ELSE LET rest == ParseLines_abort(Tail(lines))
                IN  [applied |-> <<r.geom>> \o rest.applied, end |-> rest.end]

\* The for loop over the lines of one read: the ioctl calls made, in order,
\* and whether the loop ran to its end or was left by struct.error.
RECURSIVE ParseLines(_)
ParseLines(lines) ==
  IF lines = <<>> THEN [applied |-> <<>>, end |-> "done"]
  ELSE LET r == ParseLine(Head(lines))
       IN  IF r.out = "struct.error" THEN [applied |-> <<>>, end |-> "struct.error"]
           ELSE LET rest == ParseLines(Tail(lines))
                IN  [applied |-> (IF r.out = "applied" THEN <<r.geom>> ELSE <<>>)
                                   \o rest.applied,
                     end |-> rest.end]

-----------------------------------------------------------------------------
(* What the environment can deliver *)

\* A payload one byte longer than a chunk, bytes alternating 1, 0, 1, ...
LongPayload == [i \in 1..(CHUNK_SIZE + 1) |-> i % 2]

\* Bytes available on descriptor 0 at a read; <<>> is end-of-stream.
StdinAvail == {<<>>, <<0, 1>>, LongPayload}

\* Bytes available on the PTY master at a read; <<>> is end-of-stream.
PtyAvail == {<<>>, <<1, 0>>, LongPayload}

RECURSIVE Dec(_)
Dec(n) == IF n < 10 THEN <<48 + n>> ELSE Dec(n \div 10) \o <<48 + (n % 10)>>

\* A directive line as the host spells it, with the geometry it stands for.
Directive(rows, columns) ==
  [text |-> Dec(rows) \o B(<<"x">>) \o Dec(columns),
   geom |-> <<rows, columns>>, class |-> "well"]

Padded(rows, columns) ==
  [text |-> B(<<" ">>) \o Dec(rows) \o B(<<" ", "x", " ">>) \o Dec(columns)
              \o B(<<" ">>),
   geom |-> <<rows, columns>>, class |-> "well"]

Line(class, text) == [text |-> text, geom |-> <<>>, class |-> class]

WellLines == {Directive(24, 80), Directive(7, 9), Padded(24, 80),
              Directive(USHRT_MAX, 0)}

MalformedLines ==
  {Line("malformed", B(<<"b", "a", "d">>)),
   Line("malformed", B(<<"2", "4", "x">>)),
   Line("malformed", B(<<"x", "8", "0">>)),
   Line("malformed", B(<<"1", "x", "2", "x", "3">>))}

RangeLines ==
  {Line("range", B(<<"-", "1", "x", "8", "0">>)),
   Line("range", Dec(USHRT_MAX + 1) \o B(<<"x", "8", "0">>))}

UndecodableLines == {Line("undecodable", <<255>>)}

AllLines == WellLines \cup MalformedLines \cup RangeLines \cup UndecodableLines

\* The lines that also occur in two-line messages.
PairLines ==
  {Directive(24, 80), Directive(7, 9),
   Line("malformed", B(<<"b", "a", "d">>)),
   Line("range", B(<<"-", "1", "x", "8", "0">>))}

\* CHUNK_SIZE - 1 spaces and then a two-byte character, which the read cuts.
CutMessage ==
  <<Line("undecodable", [i \in 1..(CHUNK_SIZE + 1) |->
       IF i < CHUNK_SIZE THEN 32 ELSE IF i = CHUNK_SIZE THEN 195 ELSE 169])>>

\* "24x80\n" arriving in two reads: "24x8" and then "0\n".
Fragments ==
  {<<Directive(24, 8)>>, <<Line("malformed", B(<<"0", "\n">>))>>}

\* What the host sends in one go on descriptor 3: lines, joined by "\n".
Messages ==
  {<<a>> : a \in AllLines} \cup {<<a, b>> : a \in PairLines, b \in PairLines}
    \cup {CutMessage, <<Directive(24, 80), Line("undecodable", <<255>>)>>}
    \cup Fragments

RECURSIVE Wire(_)
Wire(msg) ==
  IF msg = <<>> THEN <<>>
  ELSE IF Len(msg) = 1 THEN msg[1].text
  ELSE msg[1].text \o B(<<"\n">>) \o Wire(Tail(msg))

\* The ways the child can end: exit(code), or death by a signal.
Exited(code) == [kind |-> "exit", code |-> code, sig |-> 0, core |-> FALSE]

Signaled(sig, core) == [kind |-> "signal", code |-> 0, sig |-> sig, core |-> core]

ChildFates ==
  {Exited(n) : n \in {0, 7, 247}} \cup {Signaled(9, FALSE), Signaled(11, TRUE)}

NotReaped == [kind |-> "none", code |-> 0, sig |-> 0, core |-> FALSE]

\* The 16-bit wait status the kernel reports through waitpid for a fate.
WaitStatus(fate) ==
  IF fate.kind = "exit" THEN fate.code * 256
  ELSE fate.sig + (IF fate.core THEN 128 ELSE 0)

-----------------------------------------------------------------------------
(* The reaper: waitpid, waitstatus_to_exitcode, exit *)

WIFEXITED(status) == status % 128 = 0

WEXITSTATUS(status) == (status \div 256) % 256

WTERMSIG(status) == status % 128

\* waitstatus_to_exitcode replaced by the shell convention 128 + signal.
ws_to_ec_shell(status) ==
  IF WIFEXITED(status) THEN WEXITSTATUS(status) ELSE 128 + WTERMSIG(status)

\* os.waitstatus_to_exitcode: the exit code, or minus the signal number.
ws_to_ec(status) ==
  IF WIFEXITED(status) THEN WEXITSTATUS(status) ELSE 0 - WTERMSIG(status)

\* sys.exit(n): the status the parent of this process sees is n modulo 256.
ExitStatus(n) == (n + 256) % 256

-----------------------------------------------------------------------------
(* State after main() has forked, registered the three callbacks and is at *)
(* the first test of "while running".                                      *)

\* The process identifiers pty.fork() can return to the parent.
ChildPids == {4242}

\* The host terminal as the helper finds it: line-buffered and echoing, with
\* no attributes saved from it. No statement of main() touches it: the only
\* name taken from termios is TIOCSWINSZ, which sets the PTY's window size.
HostTty == [mode |-> "cooked", saved |-> FALSE, restores |-> 0]

NoRead == [h |-> "none", r |-> "none", data |-> <<>>, sent |-> <<>>]

Event(h, r) == [h |-> h, r |-> r, data |-> <<>>, sent |-> <<>>]

\* selector.register(fd, _EVENT_READ, callback): the callback of each key.
Callback(fd) ==
  CASE fd = PTY -> "pipe_pty"
    [] fd = STDIN -> "pipe_stdin"
    [] fd = CMDIO -> "process_cmdio"

Init ==
  /\ pc = "loop"
  /\ running = TRUE
  /\ registered = {PTY, STDIN, CMDIO}
  /\ ready = <<>>
  /\ stdinRead = <<>>
  /\ ptyWritten = <<>>
  /\ ptyRead = <<>>
  /\ stdoutWritten = <<>>
  /\ ioctlLog = <<>>
  /\ last = NoRead
  /\ nReads = 0
  /\ sawPtyEof = FALSE
  /\ waitCount = 0
  /\ child = NotReaped
  /\ exitCode = -1
  /\ afterEof = <<>>
  /\ platform = "linux"
  /\ wdata = <<>>
  /\ wcalls = 0
  /\ pid \in ChildPids
  /\ tty = HostTty

-----------------------------------------------------------------------------
(* The event loop *)

\* selector.select(): a non-empty list of distinct registered keys, in the
\* order the kernel reports them.
ReadyLists(S) ==
  {r \in UNION {[1..n -> S] : n \in 1..Cardinality(S)} :
     \A i, j \in 1..Len(r) : i # j => r[i] # r[j]}

\* selector.unregister(fd)
unregister(fd) == registered \ {fd}

\* The callback returned: the for loop takes the next key, or, after the last
\* one, control is back at the test of "while running".
Return ==
  /\ ready' = Tail(ready)
  /\ pc' = IF Tail(ready) = <<>> THEN "loop" ELSE "dispatch"

\* The callback raised: nothing in main() catches it, the with block closes
\* the selector and the interpreter ends the process with status 1.
Raise ==
  /\ ready' = <<>>
  /\ pc' = "crashed"
  /\ exitCode' = 1

\* Bookkeeping: callback h has run; it is noted once the PTY has ended.
After(h) == afterEof' = IF sawPtyEof THEN Append(afterEof, h) ELSE afterEof

\* Select without the test of "while running".
Select_ignores_running ==
  /\ pc = "loop"
  /\ \E r \in ReadyLists(registered) : ready' = r
  /\ pc' = "dispatch"
  /\ UNCHANGED <<running, registered, stdinRead, ptyWritten, ptyRead,
                 stdoutWritten, ioctlLog, last, nReads, sawPtyEof, waitCount, child,
                 exitCode,
                 platform, wdata, wcalls, pid, tty, afterEof>>

\* while running: for key, _ in selector.select(): ...
Select ==
  /\ pc = "loop"
  /\ running
  /\ \E r \in ReadyLists(registered) : ready' = r
  /\ pc' = "dispatch"
  /\ UNCHANGED <<running, registered, stdinRead, ptyWritten, ptyRead,
                 stdoutWritten, ioctlLog, last, nReads, sawPtyEof, waitCount, child,
                 exitCode,
                 platform, wdata, wcalls, pid, tty, afterEof>>

\* "while running" is false: the loop and the with block are left.
LoopExit ==
  /\ pc = "loop"
  /\ ~running
  /\ pc' = "reap"
  /\ UNCHANGED <<running, registered, ready, stdinRead, ptyWritten, ptyRead,
                 stdoutWritten, ioctlLog, last, nReads, sawPtyEof, waitCount, child,
                 exitCode,
                 platform, wdata, wcalls, pid, tty, afterEof>>

\* pipe_pty_eof without "running = False".
pipe_pty_eof_keeps_running ==
  /\ pc = "dispatch" /\ ready # <<>> /\ Head(ready) = PTY
  /\ \E err \in BOOLEAN :
       last' = Event("pipe_pty", IF err THEN "oserror" ELSE "eof")
  /\ registered' = unregister(PTY)
  /\ sawPtyEof' = TRUE
  /\ Return
  /\ UNCHANGED <<running, stdinRead, ptyWritten, ptyRead, stdoutWritten,
                 ioctlLog, nReads, waitCount, child, exitCode,
                 platform, wdata, wcalls, pid, tty, afterEof>>

\* pipe_pty_eof without "selector.unregister(pty_fd)".
pipe_pty_eof_keeps_registered ==
  /\ pc = "dispatch" /\ ready # <<>> /\ Head(ready) = PTY
  /\ \E err \in BOOLEAN :
       last' = Event("pipe_pty", IF err THEN "oserror" ELSE "eof")
  /\ running' = FALSE
  /\ sawPtyEof' = TRUE
  /\ Return
  /\ UNCHANGED <<registered, stdinRead, ptyWritten, ptyRead, stdoutWritten, ioctlLog,
                 nReads, waitCount, child, exitCode,
                 platform, wdata, wcalls, pid, tty, afterEof>>

\* pipe_pty when the read returns b"" or raises OSError (caught: data = b"").
pipe_pty_eof ==
  /\ pc = "dispatch" /\ ready # <<>> /\ Head(ready) = PTY
  /\ \E err \in BOOLEAN :
       last' = Event("pipe_pty", IF err THEN "oserror" ELSE "eof")
  /\ registered' = unregister(PTY)
  /\ running' = FALSE
  /\ sawPtyEof' = TRUE
  /\ Return
  /\ UNCHANGED <<stdinRead, ptyWritten, ptyRead, stdoutWritten, ioctlLog,
                 nReads, waitCount, child, exitCode,
                 platform, wdata, wcalls, pid, tty, afterEof>>

\* pipe_pty when the read returns data: write_all(_STDOUT, data).
pipe_pty_data ==
  /\ pc = "dispatch" /\ ready # <<>> /\ Head(ready) = PTY
  /\ nReads < MaxReads
  /\ \E avail \in PtyAvail \ {<<>>} :
       LET data == Read(avail, CHUNK_SIZE)
       IN  \E w \in write_all(data, MaxWrites) :
           /\ ptyRead' = ptyRead \o data
           /\ stdoutWritten' = stdoutWritten \o w.written
           /\ IF w.end = "raised"
              THEN /\ last' = Event("pipe_pty", "write_error")
                   /\ Raise
              ELSE /\ last' = Event("pipe_pty", "data")
                   /\ Return
                   /\ UNCHANGED exitCode
  /\ nReads' = nReads + 1
  /\ After("pipe_pty")
  /\ UNCHANGED <<running, registered, stdinRead, ptyWritten, ioctlLog,
                 sawPtyEof, waitCount, child,
                 platform, wdata, wcalls, pid, tty>>

pipe_pty == pipe_pty_eof \/ pipe_pty_data

\* pipe_stdin_eof ending the loop the way pipe_pty does.
pipe_stdin_eof_stops ==
  /\ pc = "dispatch" /\ ready # <<>> /\ Head(ready) = STDIN
  /\ registered' = unregister(STDIN)
  /\ running' = FALSE
  /\ last' = Event("pipe_stdin", "eof")
  /\ Return
  /\ After("pipe_stdin")
  /\ UNCHANGED <<stdinRead, ptyWritten, ptyRead, stdoutWritten, ioctlLog,
                 nReads, sawPtyEof, waitCount, child, exitCode,
                 platform, wdata, wcalls, pid, tty>>

\* pipe_stdin when the read returns b"": only this source is deregistered.
pipe_stdin_eof ==
  /\ pc = "dispatch" /\ ready # <<>> /\ Head(ready) = STDIN
  /\ registered' = unregister(STDIN)
  /\ last' = Event("pipe_stdin", "eof")
  /\ Return
  /\ After("pipe_stdin")
  /\ UNCHANGED <<running, stdinRead, ptyWritten, ptyRead, stdoutWritten,
                 ioctlLog, nReads, sawPtyEof, waitCount, child, exitCode,
                 platform, wdata, wcalls, pid, tty>>

\* pipe_stdin when the read raises OSError: no handler, the callback raises.
pipe_stdin_oserror ==
  /\ pc = "dispatch" /\ ready # <<>> /\ Head(ready) = STDIN
  /\ last' = Event("pipe_stdin", "oserror")
  /\ Raise
  /\ After("pipe_stdin")
  /\ UNCHANGED <<running, registered, stdinRead, ptyWritten, ptyRead,
                 stdoutWritten, ioctlLog, nReads, sawPtyEof, waitCount, child,
                 platform, wdata, wcalls, pid, tty>>

\* pipe_stdin_data that also removes the registration of stdin.
pipe_stdin_data_deregisters ==
  /\ pc = "dispatch" /\ ready # <<>> /\ Head(ready) = STDIN
  /\ nReads < MaxReads
  /\ \E avail \in StdinAvail \ {<<>>} :
       LET data == Read(avail, CHUNK_SIZE)
       IN  \E w \in write_all(data, MaxWrites) :
           /\ stdinRead' = stdinRead \o data
           /\ ptyWritten' = ptyWritten \o w.written
           /\ IF w.end = "raised"
              THEN /\ last' = Event("pipe_stdin", "write_error")
                   /\ Raise
              ELSE /\ last' = Event("pipe_stdin", "data")
                   /\ Return
                   /\ UNCHANGED exitCode
  /\ nReads' = nReads + 1
  /\ registered' = unregister(STDIN)
  /\ After("pipe_stdin")
  /\ UNCHANGED <<running, ptyRead, stdoutWritten, ioctlLog,
                 sawPtyEof, waitCount, child,
                 platform, wdata, wcalls, pid, tty>>

\* pipe_stdin when the read returns data: write_all(pty_fd, data).
pipe_stdin_data ==
  /\ pc = "dispatch" /\ ready # <<>> /\ Head(ready) = STDIN
  /\ nReads < MaxReads
  /\ \E avail \in StdinAvail \ {<<>>} :
       LET data == Read(avail, CHUNK_SIZE)
       IN  \E w \in write_all(data, MaxWrites) :
           /\ stdinRead' = stdinRead \o data
           /\ ptyWritten' = ptyWritten \o w.written
           /\ IF w.end = "raised"
              THEN /\ last' = Event("pipe_stdin", "write_error")
                   /\ Raise
              ELSE /\ last' = Event("pipe_stdin", "data")
                   /\ Return
                   /\ UNCHANGED exitCode
  /\ nReads' = nReads + 1
  /\ After("pipe_stdin")
  /\ UNCHANGED <<running, registered, ptyRead, stdoutWritten, ioctlLog,
                 sawPtyEof, waitCount, child,
                 platform, wdata, wcalls, pid, tty>>

pipe_stdin == pipe_stdin_eof \/ pipe_stdin_oserror \/ pipe_stdin_data

\* process_cmdio_eof unregistering stdin instead of descriptor 3.
process_cmdio_eof_wrong_fd ==
  /\ pc = "dispatch" /\ ready # <<>> /\ Head(ready) = CMDIO
  /\ registered' = unregister(STDIN)
  /\ last' = Event("process_cmdio", "eof")
  /\ Return
  /\ After("process_cmdio")
  /\ UNCHANGED <<running, stdinRead, ptyWritten, ptyRead, stdoutWritten,
                 ioctlLog, nReads, sawPtyEof, waitCount, child, exitCode,
                 platform, wdata, wcalls, pid, tty>>

\* process_cmdio when the read returns b"": only this source is deregistered.
process_cmdio_eof ==
  /\ pc = "dispatch" /\ ready # <<>> /\ Head(ready) = CMDIO
  /\ registered' = unregister(CMDIO)
  /\ last' = Event("process_cmdio", "eof")
  /\ Return
  /\ After("process_cmdio")
  /\ UNCHANGED <<running, stdinRead, ptyWritten, ptyRead, stdoutWritten,
                 ioctlLog, nReads, sawPtyEof, waitCount, child, exitCode,
                 platform, wdata, wcalls, pid, tty>>

\* process_cmdio when the read raises OSError: the callback raises.
process_cmdio_oserror ==
  /\ pc = "dispatch" /\ ready # <<>> /\ Head(ready) = CMDIO
  /\ last' = Event("process_cmdio", "oserror")
  /\ Raise
  /\ After("process_cmdio")
  /\ UNCHANGED <<running, registered, stdinRead, ptyWritten, ptyRead,
                 stdoutWritten, ioctlLog, nReads, sawPtyEof, waitCount, child,
                 platform, wdata, wcalls, pid, tty>>

\* The outcome of decoding and parsing one read.  The decode is the iterable
\* of the for statement, outside the try: UnicodeDecodeError is not caught.
Resize(data) ==
  IF ~Utf8Valid(data) THEN [applied |-> <<>>, end |-> "UnicodeDecodeError"]
  ELSE ParseLines(splitlines(Utf8Decode(data)))

\* process_cmdio_data that keeps an unterminated last line for the next read.
process_cmdio_data_buffered ==
  /\ pc = "dispatch" /\ ready # <<>> /\ Head(ready) = CMDIO
  /\ nReads < MaxReads
  /\ \E msg \in Messages :
       LET data == Read(Wire(msg), CHUNK_SIZE)
           held == IF last.h = "process_cmdio" /\ last.data # <<>>
                        /\ last.data[Len(last.data)] # 10
                   THEN last.data ELSE <<>>
           res  == Resize(held \o data)
       IN  /\ ioctlLog' = ioctlLog \o res.applied
           /\ last' = [h |-> "process_cmdio", r |-> res.end, data |-> data,
                       sent |-> msg]
           /\ IF res.end = "done"
              THEN Return /\ UNCHANGED exitCode
              ELSE Raise
  /\ nReads' = nReads + 1
  /\ After("process_cmdio")
  /\ UNCHANGED <<running, registered, stdinRead, ptyWritten, ptyRead,
                 stdoutWritten, sawPtyEof, waitCount, child,
                 platform, wdata, wcalls, pid, tty>>

\* process_cmdio when the read returns data.
process_cmdio_data ==
  /\ pc = "dispatch" /\ ready # <<>> /\ Head(ready) = CMDIO
  /\ nReads < MaxReads
  /\ \E msg \in Messages :
       LET data == Read(Wire(msg), CHUNK_SIZE)
           res  == Resize(data)
       IN  /\ ioctlLog' = ioctlLog \o res.applied
           /\ last' = [h |-> "process_cmdio", r |-> res.end, data |-> data,
                       sent |-> msg]
           /\ IF res.end = "done"
              THEN Return /\ UNCHANGED exitCode
              ELSE Raise
  /\ nReads' = nReads + 1
  /\ After("process_cmdio")
  /\ UNCHANGED <<running, registered, stdinRead, ptyWritten, ptyRead,
                 stdoutWritten, sawPtyEof, waitCount, child,
                 platform, wdata, wcalls, pid, tty>>

process_cmdio ==
  process_cmdio_eof \/ process_cmdio_oserror \/ process_cmdio_data

\* _exit(_ws_to_ec(_waitpid(pid, 0)[1]))
Reap ==
  /\ pc = "reap"
  /\ \E fate \in ChildFates :
       /\ child' = fate
       /\ exitCode' = ExitStatus(ws_to_ec(WaitStatus(fate)))
  /\ waitCount' = waitCount + 1
  /\ pc' = "exited"
  /\ UNCHANGED <<running, registered, ready, stdinRead, ptyWritten, ptyRead,
                 stdoutWritten, ioctlLog, last, nReads, sawPtyEof,
                 platform, wdata, wcalls, pid, tty, afterEof>>

Next ==
  \/ Select
  \/ LoopExit
  \/ pipe_pty
  \/ pipe_stdin
  \/ process_cmdio
  \/ Reap

Spec == Init /\ [][Next]_vars

\* The callbacks always return or raise and "while running" is always
\* re-tested: the loop is one thread of straight-line code.
FairSpec ==
  Spec /\ WF_vars(pipe_pty \/ pipe_stdin \/ process_cmdio) /\ WF_vars(LoopExit)

-----------------------------------------------------------------------------
(* main() from its entry: the platform guard, the fork and the exec *)

\* sys.platform: one platform with pty.fork and the one without.
Platforms == {"linux", "win32"}

\* What the loop and the reaper leave alone until the handlers are registered.
Untouched ==
  UNCHANGED <<ready, stdinRead, ptyWritten, ptyRead, stdoutWritten, ioctlLog,
              nReads, sawPtyEof, waitCount, child, afterEof, platform, wdata,
              wcalls, tty>>

\* The process at the call of main(): nothing forked, nothing registered.
MainInit ==
  /\ pc = "main"
  /\ platform \in Platforms
  /\ pid = -1
  /\ running = FALSE
  /\ registered = {}
  /\ ready = <<>>
  /\ stdinRead = <<>>
  /\ ptyWritten = <<>>
  /\ ptyRead = <<>>
  /\ stdoutWritten = <<>>
  /\ ioctlLog = <<>>
  /\ last = NoRead
  /\ nReads = 0
  /\ sawPtyEof = FALSE
  /\ waitCount = 0
  /\ child = NotReaped
  /\ exitCode = -1
  /\ afterEof = <<>>
  /\ wdata = <<>>
  /\ wcalls = 0
  /\ tty = HostTty

\* On win32 main is "raise NotImplementedError(_sys.platform)": nothing
\* catches it and the interpreter ends the process with status 1.
main_win32 ==
  /\ pc = "main"
  /\ platform = "win32"
  /\ last' = Event("main", "NotImplementedError")
  /\ pc' = "unsupported"
  /\ exitCode' = 1
  /\ UNCHANGED <<running, registered, pid>>
  /\ Untouched

\* _FORK() called whatever the platform is.
FORK_any_platform ==
  /\ pc = "main"
  /\ \/ /\ \E p \in {0} \cup ChildPids : pid' = p
        /\ pc' = IF pid' = 0 THEN "child" ELSE "parent"
        /\ UNCHANGED <<last, exitCode>>
     \/ /\ last' = Event("main", "OSError")
        /\ pc' = "crashed"
        /\ exitCode' = 1
        /\ UNCHANGED pid
  /\ UNCHANGED <<running, registered>>
  /\ Untouched

\* pid, pty_fd = _FORK(): pty.fork() returns 0 to the child and the child's
\* pid to the parent, or raises OSError, which nothing catches. The model
\* follows one of the two processes.
FORK ==
  /\ pc = "main"
  /\ platform # "win32"
  /\ \/ /\ \E p \in {0} \cup ChildPids : pid' = p
        /\ pc' = IF pid' = 0 THEN "child" ELSE "parent"
        /\ UNCHANGED <<last, exitCode>>
     \/ /\ last' = Event("main", "OSError")
        /\ pc' = "crashed"
        /\ exitCode' = 1
        /\ UNCHANGED pid
  /\ UNCHANGED <<running, registered>>
  /\ Untouched

\* execvp returning to its caller when the image cannot be replaced.
execvp_returns ==
  /\ pc = "child"
  /\ \/ /\ pc' = "shell"
        /\ UNCHANGED last
     \/ /\ last' = Event("main", "OSError")
        /\ pc' = "parent"
  /\ UNCHANGED <<running, registered, pid, exitCode>>
  /\ Untouched

\* if pid == 0: _execvp(shell, [shell]).  execvp does not return: either the
\* process image becomes the shell, or it raises OSError, which nothing
\* catches, and the interpreter ends the child with status 1.
execvp ==
  /\ pc = "child"
  /\ \/ /\ pc' = "shell"
        /\ UNCHANGED <<last, exitCode>>
     \/ /\ last' = Event("main", "OSError")
        /\ pc' = "child_raised"
        /\ exitCode' = 1
  /\ UNCHANGED <<running, registered, pid>>
  /\ Untouched

\* The parent: running = True and the three selector.register calls.
Register ==
  /\ pc = "parent"
  /\ running' = TRUE
  /\ registered' = registered \cup {PTY, STDIN, CMDIO}
  /\ pc' = "loop"
  /\ UNCHANGED <<last, pid, exitCode>>
  /\ Untouched

MainNext ==
  \/ main_win32
  \/ FORK
  \/ execvp
  \/ Register
  \/ Next

MainSpec == MainInit /\ [][MainNext]_vars

-----------------------------------------------------------------------------
(* write_all, one write call at a time *)

\* The chunks handed to write_all: every one is non-empty ("if not data"
\* has returned before the call otherwise).
WriteChunks == UNION {[1..n -> {0, 1}] : n \in 1..MaxChunk}

WriteIdle ==
  UNCHANGED <<running, registered, ready, stdinRead, ptyRead, ioctlLog, last,
              nReads, sawPtyEof, waitCount, child, afterEof, platform, pid,
              tty>>

\* pipe_stdin has read a chunk and calls write_all(pty_fd, data).
WriteInit ==
  /\ pc = "write_all"
  /\ wdata \in WriteChunks
  /\ wcalls = 0
  /\ platform = "linux"
  /\ pid \in ChildPids
  /\ running = TRUE
  /\ registered = {PTY, STDIN, CMDIO}
  /\ ready = <<STDIN>>
  /\ stdinRead = wdata
  /\ ptyWritten = <<>>
  /\ ptyRead = <<>>
  /\ stdoutWritten = <<>>
  /\ ioctlLog = <<>>
  /\ last = NoRead
  /\ nReads = 1
  /\ sawPtyEof = FALSE
  /\ waitCount = 0
  /\ child = NotReaped
  /\ exitCode = -1
  /\ afterEof = <<>>
  /\ tty = HostTty

\* One turn of "while data: data = data[_write(fd, data):]" in which write
\* returns n, any count from 0 to len(data).
write_returns ==
  /\ pc = "write_all"
  /\ wdata # <<>>
  /\ \E n \in 0..Len(wdata) :
       /\ ptyWritten' = ptyWritten \o SubSeq(wdata, 1, n)
       /\ wdata' = Drop(wdata, n)
  /\ wcalls' = 1 - wcalls
  /\ UNCHANGED <<pc, stdoutWritten, exitCode>>
  /\ WriteIdle

\* One turn in which write raises OSError: it leaves write_all and the
\* callback, and nothing in main() catches it.
write_raises ==
  /\ pc = "write_all"
  /\ wdata # <<>>
  /\ wcalls' = 1 - wcalls
  /\ pc' = "crashed"
  /\ exitCode' = 1
  /\ UNCHANGED <<wdata, ptyWritten, stdoutWritten>>
  /\ WriteIdle

\* "while data" is false: write_all returns.
write_all_returns ==
  /\ pc = "write_all"
  /\ wdata = <<>>
  /\ pc' = "returned"
  /\ UNCHANGED <<wdata, wcalls, ptyWritten, stdoutWritten, exitCode>>
  /\ WriteIdle

WriteNext == write_returns \/ write_raises \/ write_all_returns

\* The loop of write_all is straight-line code: its next turn is always taken.
\* What each write call returns is the operating system's choice.
WriteSpec == WriteInit /\ [][WriteNext]_vars /\ WF_vars(WriteNext)

-----------------------------------------------------------------------------
(* Vocabulary of the properties *)

LoopEnded == pc \in {"reap", "exited", "crashed"}

\* The callback for fd is the one this step runs.
Runs(fd) == pc = "dispatch" /\ ready # <<>> /\ Head(ready) = fd

HasClass(msg, class) == \E i \in 1..Len(msg) : msg[i].class = class

OnlyClasses(msg, classes) == \A i \in 1..Len(msg) : msg[i].class \in classes

\* The geometries of the well-formed lines of a message, in line order.
RECURSIVE WellGeoms(_)
WellGeoms(msg) ==
  IF msg = <<>> THEN <<>>
  ELSE (IF Head(msg).class = "well" THEN <<Head(msg).geom>> ELSE <<>>)
         \o WellGeoms(Tail(msg))

-----------------------------------------------------------------------------
(* Properties *)

\* C1: byte fidelity.  As long as no write call has raised, the bytes accepted
\* for the PTY master are exactly the bytes pipe_stdin has read, in order, and
\* the bytes accepted for stdout are exactly the bytes pipe_pty has read,
\* whatever partial counts write returned and however many chunks it took.
C1_ByteFidelity ==
  /\ last # Event("pipe_stdin", "write_error") => ptyWritten = stdinRead
  /\ last # Event("pipe_pty", "write_error") => stdoutWritten = ptyRead

\* A payload longer than one chunk has gone through in two reads.
C1_Witness ==
  /\ Len(stdinRead) > CHUNK_SIZE
  /\ ptyWritten = stdinRead
  /\ pc # "crashed"

\* C2: once a PTY read has returned nothing or raised, running is false and
\* the PTY is deregistered, and the event loop ends, whether or not stdin and
\* the control channel are still registered.
C2_TerminationTrigger ==
  /\ [](sawPtyEof => ~running /\ PTY \notin registered)
  /\ (sawPtyEof ~> LoopEnded)

\* The loop has ended on PTY end-of-stream with both other sources registered.
C2_Witness ==
  /\ pc = "reap"
  /\ sawPtyEof
  /\ {STDIN, CMDIO} \subseteq registered

\* C3: a zero-byte read on stdin, or on fd 3, removes that one registration
\* and nothing else: running, the other registrations, every byte log and the
\* geometry log are unchanged, and the loop goes on.
C3_PartialDeregistration ==
  [][\A fd \in {STDIN, CMDIO} :
       Runs(fd) /\ last'.r = "eof" =>
         /\ fd \in registered
         /\ registered' = registered \ {fd}
         /\ running' = running
         /\ <<stdinRead, ptyWritten, ptyRead, stdoutWritten, ioctlLog>>'
              = <<stdinRead, ptyWritten, ptyRead, stdoutWritten, ioctlLog>>
         /\ pc' \in {"loop", "dispatch"}]_vars

\* After stdin reached end-of-stream, PTY output is still relayed.
C3_Witness ==
  /\ STDIN \notin registered
  /\ running
  /\ last = Event("pipe_pty", "data")
  /\ stdoutWritten # <<>>

\* C4: the loop ends only on PTY end-of-stream and nothing after its start
\* becomes a failure of the process.
C4_OnlyPtyEofEndsLoop ==
  /\ pc # "crashed"
  /\ LoopEnded => sawPtyEof

\* C5: whenever the parent has terminated, waitpid has been called exactly
\* once, and it is never called twice.
C5_ReapedExactlyOnce ==
  /\ waitCount <= 1
  /\ pc \in {"exited", "crashed"} => waitCount = 1

\* C6: a read made only of well-formed lines applies exactly the geometries
\* of its lines, one ioctl per line, in line order.
C6_WellFormedApplied ==
  [][Runs(CMDIO) /\ last'.sent # <<>> /\ OnlyClasses(last'.sent, {"well"}) =>
       /\ ioctlLog' = ioctlLog \o [i \in 1..Len(last'.sent) |-> last'.sent[i].geom]
       /\ pc' # "crashed"]_vars

\* "24x80\n7x9" has applied (24, 80) and then (7, 9).
C6_Witness ==
  /\ last.sent = <<Directive(24, 80), Directive(7, 9)>>
  /\ ioctlLog = <<<<24, 80>>, <<7, 9>>>>

\* C7: lines with the wrong field count or non-numeric fields are skipped
\* without an error, and the lines after them are still processed: the ioctls
\* of a read are exactly those of its well-formed lines, in order.
C7_MalformedSkipped ==
  [][/\ Runs(CMDIO)
     /\ HasClass(last'.sent, "malformed")
     /\ OnlyClasses(last'.sent, {"well", "malformed"})
     => /\ ioctlLog' = ioctlLog \o WellGeoms(last'.sent)
        /\ last'.r = "done"
        /\ pc' # "crashed"
        /\ running' = running /\ registered' = registered]_vars

\* "bad\n7x9": the first line was skipped, the second applied.
C7_Witness ==
  /\ last.sent = <<Line("malformed", B(<<"b", "a", "d">>)), Directive(7, 9)>>
  /\ ioctlLog = <<<<7, 9>>>>
  /\ pc # "crashed"

\* C8: a line whose integers are outside 0..65535 is skipped like any
\* malformed line: no error, the loop and the registrations untouched, the
\* other lines of the read applied.
C8_OutOfRangeSkipped ==
  [][/\ Runs(CMDIO)
     /\ HasClass(last'.sent, "range")
     /\ OnlyClasses(last'.sent, {"well", "malformed", "range"})
     => /\ ioctlLog' = ioctlLog \o WellGeoms(last'.sent)
        /\ pc' # "crashed"
        /\ running' = running /\ registered' = registered]_vars

\* C9: a read that is not valid UTF-8 does not become an error of the
\* program: process_cmdio returns and the loop runs on.
C9_DecodeFailureContained ==
  last.h = "process_cmdio" /\ HasClass(last.sent, "undecodable")
    => pc # "crashed" /\ exitCode # 1

\* C10 as claimed: a normal exit code is passed on, and the code after a
\* signal is non-zero and differs from the code of every normal child exit.
C10_ExitCodeDistinct ==
  pc = "exited" =>
    /\ child.kind = "exit" => exitCode = child.code
    /\ child.kind = "signal" =>
         /\ exitCode # 0
         /\ \A n \in 0..255 : exitCode # ExitStatus(ws_to_ec(WaitStatus(Exited(n))))

\* C10 as amended: a normal exit code n is passed on; after signal s the
\* parent exits with 256 - s, which lies above 128 and so is never 0.
C10_ExitCodePropagation ==
  pc = "exited" =>
    /\ waitCount = 1
    /\ child.kind = "exit" => exitCode = child.code
    /\ child.kind = "signal" => exitCode = 256 - child.sig /\ exitCode > 128

\* The child was killed by SIGKILL and the parent has exited with 247.
C10_Witness ==
  /\ pc = "exited"
  /\ child = Signaled(9, FALSE)
  /\ exitCode = 247

\* C11: a write call that raises during pipe_pty or pipe_stdin ends that
\* source's registration the way its end-of-stream would: the descriptor is
\* deregistered and the process does not fail.
C11_WriteFailureDeregisters ==
  last.r = "write_error" =>
    /\ pc # "crashed"
    /\ last.h = "pipe_stdin" => STDIN \notin registered
    /\ last.h = "pipe_pty" => PTY \notin registered

\* C12: while the event loop runs, the host terminal's attributes have been
\* saved and stdin is in raw mode; once the process has left the loop the
\* saved attributes have been restored exactly once and raw mode is off.
C12_TerminalModeCleanup ==
  /\ pc \in {"loop", "dispatch"} => tty.saved /\ tty.mode = "raw"
  /\ pc \in {"exited", "crashed"} => tty.restores = 1 /\ tty.mode = "cooked"

\* C13: the process to which the fork returned 0 only ever stands before the
\* exec, runs the shell, or has ended with the error of the exec: it has no
\* registration, runs no callback, waits for no child; when the exec fails
\* it ends with status 1, and neither outcome of the exec takes a further
\* step of main().
C13_ChildNeverRunsParentLogic ==
  /\ [](pid = 0 =>
          /\ pc \in {"child", "shell", "child_raised"}
          /\ registered = {} /\ ~running /\ ready = <<>>
          /\ nReads = 0 /\ waitCount = 0 /\ child = NotReaped
          /\ pc = "child_raised" <=> exitCode = 1)
  /\ [][pc \notin {"shell", "child_raised"}]_vars

\* The exec failed in the child, which has ended with status 1.
C13_Witness ==
  /\ pid = 0
  /\ pc = "child_raised"
  /\ last = Event("main", "OSError")
  /\ exitCode = 1

C15_WriteAllFinishes == <>(pc # "write_all")

\* C16: on win32 main ends with NotImplementedError and status 1; it has not
\* forked, registered nothing, read and written nothing, waited for nothing.
C16_UnsupportedPlatform ==
  platform = "win32" =>
    /\ pc \in {"main", "unsupported"}
    /\ pc = "unsupported" <=> exitCode = 1
    /\ pc = "unsupported" <=> last = Event("main", "NotImplementedError")
    /\ pid = -1
    /\ registered = {} /\ ~running /\ ready = <<>>
    /\ nReads = 0 /\ waitCount = 0
    /\ stdinRead = <<>> /\ ptyWritten = <<>> /\ ptyRead = <<>>
    /\ stdoutWritten = <<>> /\ ioctlLog = <<>>

\* main has raised NotImplementedError on win32.
C16_Witness ==
  /\ platform = "win32"
  /\ pc = "unsupported"
  /\ exitCode = 1

\* C17: once pipe_pty has seen end-of-stream, select is not called again, and
\* of the callbacks that still run pipe_stdin and process_cmdio run at most
\* once each and pipe_pty not at all; so at most one more chunk of stdin is
\* written to the PTY master.
C17_NoSelectAfterPtyEof ==
  /\ [](/\ Len(afterEof) <= 2
        /\ \A i, j \in 1..Len(afterEof) : i # j => afterEof[i] # afterEof[j]
        /\ \A i \in 1..Len(afterEof) : afterEof[i] # "pipe_pty")
  /\ [][sawPtyEof => ~(pc = "loop" /\ pc' = "dispatch")]_vars

\* After the PTY's end-of-stream the callbacks of stdin and of descriptor 3,
\* ready in the same batch, have both run, stdin's having written a chunk.
C17_Witness ==
  /\ sawPtyEof
  /\ afterEof = <<"pipe_stdin", "process_cmdio">>
  /\ ptyWritten # <<>>
  /\ pc = "loop"

\* C18: running holds exactly while the PTY master is registered, so select
\* is only ever called with at least one registration.
C18_RunningIffPtyRegistered ==
  /\ running <=> PTY \in registered
  /\ pc = "loop" /\ running => registered # {}
  /\ pc = "dispatch" => ready # <<>>

\* select is about to be called with the PTY master as the only registration.
C18_Witness ==
  /\ pc = "loop"
  /\ running
  /\ registered = {PTY}

\* C19: the keys of a batch that still await their callback are distinct and
\* registered, and a step that changes the registrations removes exactly the
\* registered descriptor whose callback it runs; so unregister never meets an
\* unregistered descriptor and no descriptor is deregistered twice.
C19_OnlyRegisteredDispatched ==
  /\ [](/\ \A i \in 1..Len(ready) : ready[i] \in registered
        /\ \A i, j \in 1..Len(ready) : i # j => ready[i] # ready[j])
  /\ [][registered' # registered =>
          \E fd \in registered : Runs(fd) /\ registered' = registered \ {fd}]_vars

\* stdin has just been deregistered while the two other callbacks of the
\* batch still wait, both registered.
C19_Witness ==
  /\ last = Event("pipe_stdin", "eof")
  /\ Len(ready) = 2
  /\ registered = {PTY, CMDIO}

\* C20: a control read that follows a control read applies the geometries of
\* its own well-formed lines and nothing else: nothing of the earlier read is
\* carried over.
C20_NoStateBetweenReads ==
  [][Runs(CMDIO) /\ last.h = "process_cmdio" /\ last.r = "done"
       /\ last'.sent # <<>>
       /\ OnlyClasses(last'.sent, {"well", "malformed"}) =>
         ioctlLog' = ioctlLog \o WellGeoms(last'.sent)]_vars

\* "24x8" and then "0\n" were read: (24, 8) was applied and "0" discarded.
C20_Witness ==
  /\ last.h = "process_cmdio"
  /\ last.sent = <<Line("malformed", B(<<"0", "\n">>))>>
  /\ ioctlLog = <<<<24, 8>>>>

====
